---- MODULE Spec2Model ----
(***************************************************************************)
(* A model of the documentation builder of geode-sdk/flash                 *)
(* (src/src/builder): the entity tree built by Namespace::load_entries,    *)
(* the URLs of the browsed files and of the tutorials, and the page        *)
(* pipeline of Builder::build.                                             *)
(*                                                                         *)
(* Four specifications share the variables below, each leaving the other   *)
(* groups at their initial value:                                          *)
(*   SpecNs        the entity model builder   (namespace.rs)               *)
(*   SpecFiles     the file tree scanner      (files.rs)                   *)
(*   SpecTutorials the tutorial scanner       (tutorial.rs)                *)
(*   Spec          the page pipeline          (builder.rs, tutorial.rs)    *)
(***************************************************************************)
EXTENDS Integers, Sequences, FiniteSets, TLC

VARIABLES
    \* ---- entity model builder (namespace.rs) ----
    entries,      \* Namespace.entries of the root namespace, as loaded so far
    nsPrev,       \* the root's entries before the last child was processed
    nsLast,       \* the last child of the root that load_entries processed
    nsCount,      \* how many children of the root have been processed
    \* ---- file tree scanner (files.rs) ----
    roots,        \* Vec<Root>: each a BrowserRoot definition and its Dir tree
    incLast,      \* the last path of filtered_includes that was handled
    incCount,     \* how many included paths have been handled
    \* ---- page pipeline (builder.rs) ----
    phase,        \* where Builder::new / Builder::build stand
    config,       \* what the run reads of Config: whether the nav template
                  \* formats, and the directory config.tutorials.dir names
                  \* as it is on disk
    tutorials,    \* Builder.tutorials, the root TutorialFolder
    nav_cache,    \* Builder.nav_cache
    navFormats,   \* how many times the nav template has been formatted
    plan,         \* the pages Phase 1 extracts, in the order it reaches them
    jobs,         \* handles: the spawned jobs in submission order
    fsOut,        \* the output directory: path -> content
    result,       \* what Builder::build returned, once it has
    firstFailed   \* the job that was first, in time, to fail (0: none yet)

nsVars == <<entries, nsPrev, nsLast, nsCount>>

fileVars == <<roots, incLast, incCount>>

pipeVars == <<phase, config, tutorials, nav_cache, navFormats, plan, jobs, fsOut,
              result, firstFailed>>

vars == <<nsVars, fileVars, pipeVars>>

(***************************************************************************)
(* Small helpers on maps (HashMap<String, _> as a function on its keys).   *)
(***************************************************************************)
EmptyMap == <<>>

\* HashMap::insert: the key's earlier value, if any, is overwritten.
MapInsert(m, k, v) ==
    [x \in (DOMAIN m) \cup {k} |-> IF x = k THEN v ELSE m[x]]

\* HashMap::extend: every pair of m2 is inserted into m, overwriting.
MapExtend(m, m2) ==
    [x \in (DOMAIN m) \cup (DOMAIN m2) |-> IF x \in DOMAIN m2 THEN m2[x] ELSE m[x]]

(***************************************************************************)
(* The AST as the parser hands it over: a node has an entity kind, an      *)
(* optional name, the is_definition and is_in_system_header flags and its  *)
(* children in source order.                                               *)
(***************************************************************************)
NoName == "<none>"

AstNode(kind, name, def, sys, children) ==
    [kind |-> kind, name |-> name, def |-> def, sys |-> sys, children |-> children]

\* CppItemKind::from
CppItemKindFrom(entityKind) ==
    CASE entityKind = "StructDecl" -> "Struct"
      [] entityKind \in {"ClassDecl", "ClassTemplate",
                         "ClassTemplatePartialSpecialization"} -> "Class"
      [] entityKind \in {"FunctionDecl", "FunctionTemplate"} -> "Function"
      [] entityKind = "Namespace" -> "Namespace"
      [] OTHER -> "None"

\* CppItemKind::docs_category
DocsCategory(kind) ==
    CASE kind = "Namespace" -> "namespaces"
      [] kind = "Class" -> "classes"
      [] kind = "Struct" -> "classes"
      [] kind = "Function" -> "functions"

\* Namespace::name / the leaf items' name: the entity's name.
EntityName(entity) ==
    IF entity.name = NoName THEN "<Anonymous namespace>" ELSE entity.name

\* CppItem::Class / Struct / Function around Class::new etc.
LeafItem(kind, entity) == [kind |-> kind, entity |-> entity]

\* CppItem::Namespace around a Namespace value.
NamespaceItem(entity, ents) ==
    [kind |-> "Namespace", entity |-> entity, entries |-> ents]

\* The Namespace arm of load_entries with a plain insert instead of the merge.
MergeNamespaceNoMerge(ents, entry) ==
    MapInsert(ents, EntityName(entry.entity), entry)

\* The Namespace arm of load_entries with the namespace taking the place of
\* a non-namespace of its name.
MergeNamespaceReplace(ents, entry) ==
    LET name == EntityName(entry.entity) IN
    IF name \in DOMAIN ents /\ ents[name].kind = "Namespace"
    THEN [ents EXCEPT ![name].entries = MapExtend(@, entry.entries)]
    ELSE MapInsert(ents, name, entry)

\* The Namespace arm of load_entries: merge into an existing namespace of
\* that name, do nothing when the name is taken by something else, insert
\* otherwise.
MergeNamespace(ents, entry) ==
    LET name == EntityName(entry.entity) IN
    IF name \in DOMAIN ents
    THEN IF ents[name].kind = "Namespace"
         THEN [ents EXCEPT ![name].entries = MapExtend(@, entry.entries)]
         ELSE ents
    ELSE MapInsert(ents, name, entry)

\* The Struct and Class arms registering forward declarations as well.
RegisterRecordAlways(ents, kind, child) ==
    MapInsert(ents, EntityName(child), LeafItem(kind, child))

\* The Struct and Class arms leaving a namespace of that name in place.
RegisterRecordKeepNamespace(ents, kind, child) ==
    IF child.def /\ ~(EntityName(child) \in DOMAIN ents
                      /\ ents[EntityName(child)].kind = "Namespace")
    THEN MapInsert(ents, EntityName(child), LeafItem(kind, child))
    ELSE ents

\* The Struct and Class arms of load_entries: definitions only.
RegisterRecord(ents, kind, child) ==
    IF child.def
    THEN MapInsert(ents, EntityName(child), LeafItem(kind, child))
    ELSE ents

\* The Function arm of load_entries.
RegisterFunction(ents, child) ==
    MapInsert(ents, EntityName(child), LeafItem("Function", child))

RECURSIVE LoadEntries(_, _)
RECURSIVE NamespaceNew(_)

\* One iteration of the loop of load_entries.
LoadChild(ents, child) ==
    IF child.sys \/ child.name = NoName
    THEN ents
    ELSE LET kind == CppItemKindFrom(child.kind) IN
         CASE kind = "None" -> ents
           [] kind = "Namespace" -> MergeNamespace(ents, NamespaceNew(child))
           [] kind = "Struct" -> RegisterRecord(ents, "Struct", child)
           [] kind = "Class" -> RegisterRecord(ents, "Class", child)
           [] kind = "Function" -> RegisterFunction(ents, child)

\* Namespace::load_entries over the children still to process.
LoadEntries(children, ents) ==
    IF children = <<>>
    THEN ents
    ELSE LoadEntries(Tail(children), LoadChild(ents, Head(children)))

\* Namespace::new
NamespaceNew(entity) ==
    NamespaceItem(entity, LoadEntries(entity.children, EmptyMap))

(***************************************************************************)
(* The declarations the root's children are drawn from.                    *)
(***************************************************************************)
MaxChildren == 3

TopLeafNames == {"N", "A"}
InnerLeafNames == {"A", "B"}

Leaf(kind, name, def) == AstNode(kind, name, def, FALSE, <<>>)
Ns(name, children) == AstNode("Namespace", name, TRUE, FALSE, children)

RecordDecls(names) ==
    {Leaf(k, n, d) : k \in {"ClassDecl", "StructDecl"}, n \in names, d \in BOOLEAN}

FunctionDecls(names) == {Leaf("FunctionDecl", n, TRUE) : n \in names}

\* Children load_entries skips: a system header's, an unnamed one, and one
\* of a kind that is no CppItemKind.
SkippedDecls ==
    { AstNode("ClassDecl", "A", TRUE, TRUE, <<>>),
      AstNode("StructDecl", NoName, TRUE, FALSE, <<>>),
      Leaf("VarDecl", "A", TRUE) }

InnerLeaves ==
    {Leaf("ClassDecl", n, TRUE) : n \in InnerLeafNames} \cup {Leaf("FunctionDecl", "A", TRUE)}

\* namespace M { leaf? } and a class M, as children of namespace N
InnerDecls ==
    InnerLeaves \cup {Leaf("ClassDecl", "M", TRUE)}
    \cup {Ns("M", <<>>)} \cup {Ns("M", <<l>>) : l \in InnerLeaves}

NamespaceDecls == {Ns("N", <<>>)} \cup {Ns("N", <<c>>) : c \in InnerDecls}

TopDecls ==
    RecordDecls(TopLeafNames) \cup FunctionDecls(TopLeafNames)
    \cup SkippedDecls \cup NamespaceDecls

NoNode == AstNode("None", NoName, FALSE, FALSE, <<>>)

\* The entity model builder before it has looked at any child.
NsIdle ==
    /\ entries = EmptyMap
    /\ nsPrev = EmptyMap
    /\ nsLast = NoNode
    /\ nsCount = 0

(***************************************************************************)
(* The file tree scanner (files.rs).  A path is the sequence of its        *)
(* components; a URL string is the sequence of its '/'-separated parts.    *)
(***************************************************************************)
\* Path::components as File::new and Dir::new use it: a "." is kept only
\* in front, empty parts are dropped.
RECURSIVE DropCurDir(_)
DropCurDir(parts) ==
    IF parts = <<>> THEN <<>>
    ELSE IF Head(parts) \in {".", ""} THEN DropCurDir(Tail(parts))
    ELSE <<Head(parts)>> \o DropCurDir(Tail(parts))

Components(parts) ==
    IF parts = <<>> THEN <<>>
    ELSE IF Head(parts) = "." THEN <<".">> \o DropCurDir(Tail(parts))
    ELSE DropCurDir(parts)

\* Path::strip_prefix, component-wise; NoPath when base is no prefix.
NoPath == <<"<no path>">>

StripPrefix(path, base) ==
    IF Len(base) <= Len(path) /\ SubSeq(path, 1, Len(base)) = base
    THEN SubSeq(path, Len(base) + 1, Len(path))
    ELSE NoPath

\* Path::parent and Path::file_name of a non-empty relative path.
PathParent(path) == SubSeq(path, 1, Len(path) - 1)
FileName(path) == path[Len(path)]

\* File::new
FileNew(path) == [name |-> FileName(path), path |-> Components(path)]

\* File::url: "./files/" + path
FileUrl(file) == <<".", "files">> \o file.path

\* Dir::new
DirNew(path) ==
    [name |-> FileName(path), path |-> Components(path),
     dirs |-> EmptyMap, files |-> EmptyMap]

\* Dir::url: "./files/" + path
DirUrl(dir) == <<".", "files">> \o dir.path

\* Root::add_dirs followed by what the caller does with the target
\* directory: `leaf` is the file to insert there, or NoFile for none.
NoFile == [name |-> "<no file>", path |-> <<>>]

RECURSIVE AddDirs(_, _, _)
AddDirs(target, path, leaf) ==
    IF path = <<>>
    THEN IF leaf = NoFile
         THEN target
         ELSE [target EXCEPT !.files = MapInsert(@, leaf.name, leaf)]
    ELSE LET part == Head(path)
             next == IF part \in DOMAIN target.dirs
                     THEN target.dirs[part]
                     ELSE DirNew(DirUrl(target) \o <<part>>)
         IN [target EXCEPT !.dirs = MapInsert(@, part, AddDirs(next, Tail(path), leaf))]

\* The project's files, as file.is_dir() and the includes see them.
FsDirs == {<<"p">>, <<"p", "d">>, <<"q">>}
FsFiles == {<<"p", "x.h">>, <<"p", "d", "x.h">>, <<"p", "d", "y.h">>, <<"q", "x.h">>}
FsPaths == FsDirs \cup FsFiles

IsDir(path) == path \in FsDirs

\* config.browser.roots: two roots, named A and B, each on a directory.
RootNames == <<"A", "B">>

RootNew(name, path) == [def |-> [name |-> name, path |-> path], dir |-> DirNew(<<name>>)]

\* The body of the loop over the roots in Root::from_config, for one root
\* and one included path.
RootAddInclude(root, file) ==
    LET cut_path == StripPrefix(file, root.def.path) IN
    IF cut_path = NoPath
    THEN root
    ELSE IF IsDir(file)
    THEN [root EXCEPT !.dir = AddDirs(@, cut_path, NoFile)]
    ELSE [root EXCEPT !.dir = AddDirs(@, PathParent(cut_path), FileNew(cut_path))]

\* The File nodes below a directory, each with the keys that lead to it.
RECURSIVE FileNodes(_, _)
FileNodes(dir, prefix) ==
    {<<prefix \o <<k>>, dir.files[k]>> : k \in DOMAIN dir.files}
    \cup UNION {FileNodes(dir.dirs[d], prefix \o <<d>>) : d \in DOMAIN dir.dirs}

\* Every File node of the build: <<root index, place in the tree, File>>.
AllFileNodes ==
    UNION {{<<i, n[1], n[2]>> : n \in FileNodes(roots[i].dir, <<>>)} : i \in DOMAIN roots}

(***************************************************************************)
(* The tutorial scanner (tutorial.rs).  A file name is the sequence of     *)
(* its pieces, the extension last: README.md is <<"README", ".md">>.  A    *)
(* directory is [name, listing], the listing in read_dir order; a file is  *)
(* [name, ty, md] with the markdown it holds.                              *)
(***************************************************************************)
NoHeading == "<no heading>"

Markdown(heading, body) == [heading |-> heading, body |-> body]

FsFile(name, md) == [ty |-> "file", name |-> name, md |-> md]
FsDir(name, listing) == [ty |-> "dir", name |-> name, listing |-> listing]

\* str::to_lowercase on the pieces the model's names are made of.
LowerPiece(piece) ==
    CASE piece \in {"README", "Readme"} -> "readme"
      [] piece \in {"INDEX", "Index"} -> "index"
      [] piece = ".MD" -> ".md"
      [] OTHER -> piece

ToLowercase(name) == [i \in DOMAIN name |-> LowerPiece(name[i])]

\* Path::extension() == Some("md")
HasMdExtension(name) == Len(name) > 1 /\ name[Len(name)] = ".md"

\* str::replace(".md", "")
RECURSIVE RemoveMd(_)
RemoveMd(name) ==
    IF name = <<>> THEN <<>>
    ELSE IF Head(name) = ".md" THEN RemoveMd(Tail(name))
    ELSE <<Head(name)>> \o RemoveMd(Tail(name))

\* UrlPath::raw_file_name: the last part, or none for the empty path.
NoFileName == <<"<no file name>">>
RawFileName(path) == IF path = <<>> THEN NoFileName ELSE path[Len(path)]

\* extract_title_from_md: the first heading of the markdown, if any.
ExtractTitleFromMd(md) == md.heading

\* Tutorial::new
TutorialNew(path, md) ==
    [path |-> path,
     title |-> IF ExtractTitleFromMd(md) # NoHeading
               THEN <<ExtractTitleFromMd(md)>>
               ELSE RawFileName(path),
     unparsed_content |-> md]

\* Tutorial::name
TutorialName(tut) == RemoveMd(RawFileName(tut.path))

\* Tutorial::url
TutorialUrl(tut) == <<<<"tutorials">>>> \o tut.path

\* TutorialFolder::name
TutorialFolderName(folder) ==
    IF folder.path = <<>> THEN <<"_">> ELSE RawFileName(folder.path)

\* TutorialFolder::url
TutorialFolderUrl(folder) ==
    IF folder.is_root THEN <<>> ELSE <<<<"tutorials">>>> \o folder.path

\* The filter of from_folder that tells a tutorial from a special file.
IsTutorialFile(file) ==
    /\ file.ty = "file"
    /\ HasMdExtension(file.name)
    /\ ToLowercase(file.name) \notin {<<"readme", ".md">>, <<"index", ".md">>}

\* TutorialFolder.index = None
NoIndex == [none |-> TRUE]

\* path.join("index.md").exists() and fs::read_to_string of it.
IndexOf(listing) ==
    LET hits == {i \in DOMAIN listing : listing[i].name = <<"index", ".md">>} IN
    IF hits = {} THEN NoIndex
    ELSE LET f == listing[CHOOSE i \in hits : TRUE] IN
         IF f.ty = "file" THEN f.md ELSE NoIndex

NoFolder == [none |-> TRUE]

RECURSIVE FromFolder(_, _)
RECURSIVE ScanListing(_, _, _, _)

\* The loop of from_folder over read_dir: the folders and tutorials found.
ScanListing(listing, stripped_path, fs, ts) ==
    IF listing = <<>>
    THEN [folders |-> fs, tutorials |-> ts]
    ELSE LET file == Head(listing)
             rest == Tail(listing)
         IN IF file.ty = "dir"
            THEN LET folder == FromFolder(file, stripped_path \o <<file.name>>) IN
                 IF folder # NoFolder
                 THEN ScanListing(rest, stripped_path,
                          MapInsert(fs, TutorialFolderName(folder), folder), ts)
                 ELSE ScanListing(rest, stripped_path, fs, ts)
            ELSE IF IsTutorialFile(file)
            THEN LET tut == TutorialNew(stripped_path \o <<file.name>>, file.md) IN
                 ScanListing(rest, stripped_path, fs,
                     MapInsert(ts, TutorialName(tut), tut))
            ELSE ScanListing(rest, stripped_path, fs, ts)

\* TutorialFolder::from_folder returning a folder also when it found nothing.
FromFolderKeepEmpty(dir, stripped_path) ==
    LET found == ScanListing(dir.listing, stripped_path, EmptyMap, EmptyMap) IN
    [is_root |-> FALSE, path |-> stripped_path, index |-> IndexOf(dir.listing),
     folders |-> found.folders, tutorials |-> found.tutorials]

\* TutorialFolder::from_folder
FromFolder(dir, stripped_path) ==
    LET found == ScanListing(dir.listing, stripped_path, EmptyMap, EmptyMap) IN
    IF DOMAIN found.folders # {} \/ DOMAIN found.tutorials # {}
    THEN [is_root |-> FALSE, path |-> stripped_path, index |-> IndexOf(dir.listing),
          folders |-> found.folders, tutorials |-> found.tutorials]
    ELSE NoFolder

NoTutorialsDir == [none |-> TRUE]

\* TutorialFolder::from_config
FromConfig(tutorialsDir) ==
    LET res == IF tutorialsDir = NoTutorialsDir THEN NoFolder
               ELSE FromFolder(tutorialsDir, <<>>)
    IN IF res # NoFolder
       THEN [res EXCEPT !.is_root = TRUE]
       ELSE [is_root |-> TRUE, path |-> <<>>, index |-> NoIndex,
             folders |-> EmptyMap, tutorials |-> EmptyMap]

(***************************************************************************)
(* The page pipeline (builder.rs): Builder::new with its setup, then       *)
(* Builder::build.  Phase 1 walks the forest and hands every page to       *)
(* create_output_for, which spawns the page's job at once; the jobs run    *)
(* on their own from then on.                                              *)
(***************************************************************************)
ProjectName == "Proj"

NoNav == [none |-> TRUE]

\* strfmt(&self.config.templates.nav, &fmt)
NavFragment(cfg) == [html |-> "nav", project_name |-> ProjectName]

\* Builder::build_nav without the look at nav_cache.
BuildNavUncached(cache, formats, cfg) ==
    [ok |-> cfg.navOk, value |-> NavFragment(cfg), formats |-> formats + 1]

\* Builder::build_nav: the cached fragment when there is one, else the nav
\* template formatted (which fails on a bad template).
BuildNav(cache, formats, cfg) ==
    IF cache # NoNav
    THEN [ok |-> TRUE, value |-> cache, formats |-> formats]
    ELSE [ok |-> cfg.navOk, value |-> NavFragment(cfg), formats |-> formats + 1]

\* What create_output_for takes from an entry: whose page it is, name()
\* and url().
Page(entry, name, url) == [entry |-> entry, name |-> name, url |-> url]

EntityEntry(kind, qname) == [tree |-> "entities", kind |-> kind, path |-> qname]
TutorialEntry(kind, path) == [tree |-> "tutorials", kind |-> kind, path |-> path]
FileEntry(kind, rootName, path) ==
    [tree |-> "files", kind |-> kind, path |-> <<rootName>> \o path]

\* Every enumeration of a finite set: the orders a HashMap may iterate in.
Perms(S) ==
    {p \in [1..Cardinality(S) -> S] : \A i, j \in 1..Cardinality(S) : p[i] = p[j] => i = j}

\* All concatenations that take one sequence from each set, in order.
RECURSIVE ConcatAll(_)
ConcatAll(sets) ==
    IF sets = <<>> THEN {<<>>}
    ELSE {a \o b : a \in Head(sets), b \in ConcatAll(Tail(sets))}

\* rel_docs_url: the category, then the qualified name.
EntityUrl(kind, qname) == <<<<DocsCategory(kind)>>>> \o [i \in DOMAIN qname |-> <<qname[i]>>]

\* Class::build, Struct::build, Function::build: the entity's own page.
LeafBuild(item, qname) ==
    {<<Page(EntityEntry(item.kind, qname), <<EntityName(item.entity)>>,
            EntityUrl(item.kind, qname))>>}

RECURSIVE ItemBuild(_, _)
RECURSIVE NamespaceBuild(_, _)

\* CppItem::build
ItemBuild(item, qname) ==
    IF item.kind = "Namespace"
    THEN NamespaceBuild(item.entries, qname)
    ELSE LeafBuild(item, qname)

\* Namespace::build: the pages of the entries, in the map's order.
NamespaceBuild(ents, qname) ==
    UNION {ConcatAll([i \in DOMAIN p |-> ItemBuild(ents[p[i]], qname \o <<p[i]>>)])
             : p \in Perms(DOMAIN ents)}

\* Tutorial::build
TutorialBuild(tut) ==
    {<<Page(TutorialEntry("Tutorial", tut.path), TutorialName(tut), TutorialUrl(tut))>>}

\* create_output_for(self) of TutorialFolder::build
TutorialFolderPage(folder) ==
    Page(TutorialEntry("TutorialFolder", folder.path), TutorialFolderName(folder),
         TutorialFolderUrl(folder))

RECURSIVE TutorialFolderBuild(_)
\* TutorialFolder::build: its own page, then the folders, then the tutorials.
TutorialFolderBuild(folder) ==
    {<<TutorialFolderPage(folder)>> \o a \o b :
        a \in UNION {ConcatAll([i \in DOMAIN p |-> TutorialFolderBuild(folder.folders[p[i]])])
                       : p \in Perms(DOMAIN folder.folders)},
        b \in UNION {ConcatAll([i \in DOMAIN p |-> TutorialBuild(folder.tutorials[p[i]])])
                       : p \in Perms(DOMAIN folder.tutorials)}}

\* File::build
FileBuild(rootName, file) ==
    {<<Page(FileEntry("File", rootName, file.path), <<file.name>>, FileUrl(file))>>}

RECURSIVE DirBuild(_, _)
\* Dir::build: the directories, then the files.
DirBuild(rootName, dir) ==
    {a \o b :
        a \in UNION {ConcatAll([i \in DOMAIN p |-> DirBuild(rootName, dir.dirs[p[i]])])
                       : p \in Perms(DOMAIN dir.dirs)},
        b \in UNION {ConcatAll([i \in DOMAIN p |-> FileBuild(rootName, dir.files[p[i]])])
                       : p \in Perms(DOMAIN dir.files)}}

\* Root::build
RootBuild(root) == DirBuild(root.def.name, root.dir)

\* The loop of Builder::build over all_entries(): the entries of the root
\* namespace, then the file roots, then the tutorials.
AllEntriesBuild(ents, fileRoots, tuts) ==
    {a \o b \o c :
        a \in NamespaceBuild(ents, <<>>),
        b \in ConcatAll([i \in DOMAIN fileRoots |-> RootBuild(fileRoots[i])]),
        c \in TutorialFolderBuild(tuts)}

(***************************************************************************)
(* The nav trees (Entry::nav) and their JSON form, which nav.json holds.   *)
(***************************************************************************)
\* NavItem::new_root(None, items)
NavRoot(items) == [type |-> "root", items |-> items]

\* NavItem::new_dir / new_dir_open(name, items, None)
NavDir(name, items) == [type |-> "dir", name |-> name, items |-> items]

\* NavItem::new_link(name, url, None)
NavLink(name, url) == [type |-> "link", name |-> name, url |-> url]

\* NavItem::to_json: a root is the array of its items, a directory and a
\* link are objects.
RECURSIVE NavToJson(_)
NavToJson(item) ==
    CASE item.type = "root" -> [i \in DOMAIN item.items |-> NavToJson(item.items[i])]
      [] item.type = "dir" ->
            [name |-> item.name,
             items |-> [i \in DOMAIN item.items |-> NavToJson(item.items[i])]]
      [] OTHER -> [name |-> item.name, url |-> item.url]

\* The order of String on the names the sources use.
NameOrder == <<"A", "B", "Bar", "Foo", "M", "N", "f", "g">>

NameRank(name) ==
    IF \E i \in DOMAIN NameOrder : NameOrder[i] = name
    THEN CHOOSE i \in DOMAIN NameOrder : NameOrder[i] = name
    ELSE Len(NameOrder) + 1

\* The key of sort_by_key in Namespace::nav: namespaces first, then by name.
NavSortKeyLeq(ents, a, b) ==
    LET na == IF ents[a].kind = "Namespace" THEN 0 ELSE 1
        nb == IF ents[b].kind = "Namespace" THEN 0 ELSE 1
    IN na < nb \/ (na = nb /\ NameRank(a) <= NameRank(b))

\* entries.sort_by_key(..): the keys of `keys` in sorted order.
RECURSIVE SortedEntries(_, _)
SortedEntries(ents, keys) ==
    IF keys = {} THEN <<>>
    ELSE LET first == CHOOSE a \in keys : \A b \in keys : NavSortKeyLeq(ents, a, b) IN
         <<first>> \o SortedEntries(ents, keys \ {first})

\* Class::nav, Struct::nav, Function::nav: a link to the entity's page.
LeafNav(item, qname) == NavLink(<<EntityName(item.entity)>>, EntityUrl(item.kind, qname))

RECURSIVE ItemNav(_, _)
RECURSIVE NamespaceNavItems(_, _)

\* CppItem::nav, and Namespace::nav of a namespace that is not the root.
ItemNav(item, qname) ==
    IF item.kind = "Namespace"
    THEN NavDir(<<EntityName(item.entity)>>, NamespaceNavItems(item.entries, qname))
    ELSE LeafNav(item, qname)

\* The items of Namespace::nav: the navs of the sorted entries.
NamespaceNavItems(ents, qname) ==
    LET order == SortedEntries(ents, DOMAIN ents) IN
    [i \in DOMAIN order |-> ItemNav(ents[order[i]], qname \o <<order[i]>>)]

\* Namespace::nav of the root namespace.
RootNamespaceNav(ents) == NavRoot(NamespaceNavItems(ents, <<>>))

\* Tutorial::nav
TutorialNav(tut) == NavLink(tut.title, TutorialUrl(tut))

\* Every sequence that takes its i-th element from the i-th set.
RECURSIVE SeqsOf(_)
SeqsOf(sets) ==
    IF sets = <<>> THEN {<<>>}
    ELSE {<<a>> \o b : a \in Head(sets), b \in SeqsOf(Tail(sets))}

RECURSIVE TutorialFolderNav(_)
\* TutorialFolder::nav: the navs of the folders, then of the tutorials, each
\* in the order its map iterates in; the set of the trees this can give.
TutorialFolderNav(folder) ==
    LET fs == UNION {SeqsOf([i \in DOMAIN p |-> TutorialFolderNav(folder.folders[p[i]])])
                       : p \in Perms(DOMAIN folder.folders)}
        ts == {[i \in DOMAIN p |-> TutorialNav(folder.tutorials[p[i]])]
                       : p \in Perms(DOMAIN folder.tutorials)}
    IN {IF folder.is_root THEN NavRoot(a \o b)
        ELSE NavDir(TutorialFolderName(folder), a \o b) : a \in fs, b \in ts}

\* json!({ "tutorials": .., "entities": .. }) with a side that is empty
\* left out.
NavMetadataOmitEmpty(tnav, enav) ==
    CASE tnav.items = <<>> /\ enav.items = <<>> -> [none |-> TRUE]
      [] tnav.items = <<>> -> [entities |-> NavToJson(enav)]
      [] enav.items = <<>> -> [tutorials |-> NavToJson(tnav)]
      [] OTHER -> [tutorials |-> NavToJson(tnav), entities |-> NavToJson(enav)]

\* json!({ "tutorials": tutorials, "entities": entities })
NavMetadata(tnav, enav) ==
    [tutorials |-> NavToJson(tnav), entities |-> NavToJson(enav)]

\* The title create_output_in_thread gives the page.
PageTitle(name) ==
    IF name = <<>> THEN <<ProjectName, " Docs">>
    ELSE name \o <<" - ", ProjectName, " Docs">>

OutKey(url, file) == [dir |-> url, file |-> file]

\* The JoinHandle create_output_in_thread returns, with what it moved in.
JobNew(page, nav) ==
    [page |-> page, nav |-> nav, pc |-> "spawned", title |-> <<>>, err |-> "none"]

JobFinished(job) == job.pc \in {"done", "failed", "panicked"}

\* join_all returning as soon as one job has failed.
JoinReadyOnFirstFailure(js) ==
    \/ \A i \in DOMAIN js : JobFinished(js[i])
    \/ \E i \in DOMAIN js : js[i].pc \in {"failed", "panicked"}

\* join_all(...).await: every wrapper task, and so every job, has ended.
JoinReady(js) == \A i \in DOMAIN js : JobFinished(js[i])

NoError == [job |-> 0, error |-> "none"]

\* What the wrapper task makes of its job: the job's error, or "Unable to
\* join" for a job that ended abnormally.
WrapperError(job) ==
    CASE job.pc = "failed" -> job.err
      [] job.pc = "panicked" -> "Unable to join"
      [] OTHER -> "none"

\* collect dropping the errors of the jobs.
CollectResultsIgnoreErrors(js) == NoError

\* collect keeping the last error instead of stopping at the first.
RECURSIVE CollectLast(_, _)
CollectLast(js, i) ==
    IF i = 0 THEN NoError
    ELSE IF WrapperError(js[i]) # "none"
    THEN [job |-> i, error |-> WrapperError(js[i])]
    ELSE CollectLast(js, i - 1)

CollectResultsLast(js) == CollectLast(js, Len(js))

RECURSIVE CollectFrom(_, _)
CollectFrom(js, i) ==
    IF i > Len(js) THEN NoError
    ELSE IF WrapperError(js[i]) # "none"
    THEN [job |-> i, error |-> WrapperError(js[i])]
    ELSE CollectFrom(js, i + 1)

\* .into_iter().collect::<Result<Result<Vec<_>, _>, _>>(): the results in
\* submission order, stopping at the first error.
CollectResults(js) == CollectFrom(js, 1)

(***************************************************************************)
(* The groups of variables at rest.                                        *)
(***************************************************************************)
NoResult == [none |-> TRUE]

PipeIdle ==
    /\ phase = "idle"
    /\ config = [navOk |-> TRUE, tutorials_dir |-> NoTutorialsDir]
    /\ tutorials = FromConfig(NoTutorialsDir)
    /\ nav_cache = NoNav
    /\ navFormats = 0
    /\ plan = <<>>
    /\ jobs = <<>>
    /\ fsOut = EmptyMap
    /\ result = NoResult
    /\ firstFailed = 0

(***************************************************************************)
(* SpecFiles: Root::from_config, one included path per step.               *)
(***************************************************************************)
MaxIncludes == 3

FilesIdle ==
    /\ roots = <<>>
    /\ incLast = <<>>
    /\ incCount = 0

\* The first statement of Root::from_config: one empty Root per configured
\* browse root.
FilesInit ==
    /\ \E p1 \in FsDirs, p2 \in FsDirs :
          roots = <<RootNew(RootNames[1], p1), RootNew(RootNames[2], p2)>>
    /\ incLast = <<>>
    /\ incCount = 0
    /\ NsIdle
    /\ PipeIdle

\* One iteration of the loop over config.filtered_includes().
AddInclude(file) ==
    /\ incCount < MaxIncludes
    /\ incCount' = incCount + 1
    /\ incLast' = file
    /\ roots' = [i \in DOMAIN roots |-> RootAddInclude(roots[i], file)]
    /\ UNCHANGED <<nsVars, pipeVars>>

FilesNext == \E file \in FsPaths : AddInclude(file)

SpecFiles == FilesInit /\ [][FilesNext]_vars

(***************************************************************************)
(* Spec: Builder::new and Builder::build.                                  *)
(***************************************************************************)
MaxPages == 3

\* The sources the pipeline is run on: the root's children, the tutorial
\* directory and the browse roots with their includes.
PipelineSources ==
    { <<>>,
      <<Ns("Foo", <<Leaf("ClassDecl", "Bar", TRUE)>>)>>,
      <<Leaf("ClassDecl", "A", TRUE), Leaf("FunctionDecl", "f", TRUE)>> }

GuideMd == FsFile(<<"guide", ".md">>, Markdown("Getting Started", "text"))
IntroMd == FsFile(<<"intro", ".md">>, Markdown(NoHeading, "text"))
ReadmeMd == FsFile(<<"README", ".md">>, Markdown("Overview", "text"))
IndexMd == FsFile(<<"index", ".md">>, Markdown("Index", "text"))
NotesTxt == FsFile(<<"notes", ".txt">>, Markdown(NoHeading, "text"))

TutorialDirs ==
    { NoTutorialsDir,
      FsDir(<<"docs">>, <<GuideMd>>),
      FsDir(<<"docs">>, <<ReadmeMd, FsDir(<<"adv">>, <<IntroMd>>)>>),
      FsDir(<<"docs">>, <<IndexMd, NotesTxt>>) }

PipelineRoots ==
    { <<>>,
      <<RootAddInclude(RootNew("A", <<"p">>), <<"p", "d", "x.h">>)>> }

\* Builder { .. } in Builder::new: the three trees are built, nothing is
\* set up yet.
PipeInit ==
    /\ phase = "new"
    /\ config \in [navOk : BOOLEAN, tutorials_dir : TutorialDirs]
    /\ \E src \in PipelineSources : entries = LoadEntries(src, EmptyMap)
    /\ roots \in PipelineRoots
    /\ tutorials = FromConfig(config.tutorials_dir)
    /\ plan \in AllEntriesBuild(entries, roots, tutorials)
    /\ Len(plan) <= MaxPages
    /\ nav_cache = NoNav
    /\ navFormats = 0
    /\ jobs = <<>>
    /\ fsOut = EmptyMap
    /\ result = NoResult
    /\ firstFailed = 0
    /\ nsPrev = EmptyMap /\ nsLast = NoNode /\ nsCount = 0
    /\ incLast = <<>> /\ incCount = 0

\* Builder::setup: the assets are copied (any of which may fail), then the
\* nav is prebuilt.
Setup(assetsOk) ==
    /\ phase = "new"
    /\ IF ~assetsOk
       THEN /\ phase' = "setup_failed"
            /\ UNCHANGED <<nav_cache, navFormats>>
       ELSE LET nav == BuildNav(nav_cache, navFormats, config) IN
            /\ navFormats' = nav.formats
            /\ nav_cache' = IF nav.ok THEN nav.value ELSE nav_cache
            /\ phase' = IF nav.ok THEN "ready" ELSE "setup_failed"
    /\ UNCHANGED <<config, tutorials, plan, jobs, fsOut, result, firstFailed, nsVars, fileVars>>

\* Builder::build is called.
BuildStart ==
    /\ phase = "ready"
    /\ phase' = "extracting"
    /\ UNCHANGED <<config, tutorials, nav_cache, navFormats, plan, jobs, fsOut, result,
                   firstFailed, nsVars, fileVars>>

\* Builder::create_output_for of the next entry Phase 1 reaches: the
\* entry's content is extracted, the nav fetched and the page's job spawned.
CreateOutputFor ==
    /\ phase = "extracting"
    /\ Len(jobs) < Len(plan)
    /\ LET page == plan[Len(jobs) + 1]
           nav == BuildNav(nav_cache, navFormats, config)
       IN /\ navFormats' = nav.formats
          /\ IF nav.ok
             THEN /\ jobs' = Append(jobs, JobNew(page, nav.value))
                  /\ UNCHANGED <<phase, result>>
             ELSE /\ phase' = "failed"
                  /\ result' = [job |-> 0, error |-> "Unable to format navbar"]
                  /\ UNCHANGED jobs
    /\ UNCHANGED <<config, tutorials, nav_cache, plan, fsOut, firstFailed, nsVars, fileVars>>

JobsRunning == phase \in {"extracting", "joining"}

\* The job `j` ends with an error at the step it is at.
JobFail(j, error) ==
    /\ jobs' = [jobs EXCEPT ![j].pc = "failed", ![j].err = error]
    /\ firstFailed' = IF firstFailed = 0 THEN j ELSE firstFailed

\* A job formats and minifies its content and its page; a template or
\* minifier error ends it, and so does a panic in there.
JobRender(j, outcome) ==
    /\ JobsRunning
    /\ jobs[j].pc = "spawned"
    /\ CASE outcome = "ok" ->
              /\ jobs' = [jobs EXCEPT ![j].pc = "rendered",
                                      ![j].title = PageTitle(jobs[j].page.name)]
              /\ UNCHANGED firstFailed
         [] outcome = "err" -> JobFail(j, "Unable to format")
         [] outcome = "panic" ->
              /\ jobs' = [jobs EXCEPT ![j].pc = "panicked"]
              /\ firstFailed' = IF firstFailed = 0 THEN j ELSE firstFailed
    /\ UNCHANGED <<phase, config, tutorials, nav_cache, navFormats, plan, fsOut, result,
                   nsVars, fileVars>>

\* A write of a job that goes on to the next step when it fails.
JobWriteContinueOnError(j, from, to, file, content, error, ok) ==
    /\ JobsRunning
    /\ jobs[j].pc = from
    /\ jobs' = [jobs EXCEPT ![j].pc = to]
    /\ fsOut' = IF ok THEN MapInsert(fsOut, OutKey(jobs[j].page.url, file), content)
                ELSE fsOut
    /\ UNCHANGED <<phase, config, tutorials, nav_cache, navFormats, plan, result,
                   firstFailed, nsVars, fileVars>>

\* One of the four writes of a job: from `from`, write `file` and move to
\* `to`, or fail with `error`.
JobWrite(j, from, to, file, content, error, ok) ==
    /\ JobsRunning
    /\ jobs[j].pc = from
    /\ IF ok
       THEN /\ jobs' = [jobs EXCEPT ![j].pc = to]
            /\ fsOut' = MapInsert(fsOut, OutKey(jobs[j].page.url, file), content)
            /\ UNCHANGED firstFailed
       ELSE /\ JobFail(j, error)
            /\ UNCHANGED fsOut
    /\ UNCHANGED <<phase, config, tutorials, nav_cache, navFormats, plan, result,
                   nsVars, fileVars>>

\* tokio::fs::create_dir_all(&output_dir)
JobCreateDir(j, ok) ==
    JobWrite(j, "rendered", "dir", ".", "dir", "Unable to create directory", ok)

\* tokio::fs::write(output_dir.join("metadata.json"), ..)
JobWriteMetadata(j, ok) ==
    JobWrite(j, "dir", "metadata", "metadata.json",
             [title |-> jobs[j].title, description |-> ""], "Unable to save metadata", ok)

\* tokio::fs::write(.. "content.html", content)
JobWriteContent(j, ok) ==
    JobWrite(j, "metadata", "content", "content.html", "content", "Unable to save", ok)

\* tokio::fs::write(.. "index.html", page), then Ok(target_url)
JobWriteIndex(j, ok) ==
    JobWrite(j, "content", "done", "index.html",
             [navbar_content |-> jobs[j].nav, main_content |-> "content"],
             "Unable to save", ok)

\* The loop over all_entries() is through.
ExtractionDone ==
    /\ phase = "extracting"
    /\ Len(jobs) = Len(plan)
    /\ phase' = "joining"
    /\ UNCHANGED <<config, tutorials, nav_cache, navFormats, plan, jobs, fsOut, result,
                   firstFailed, nsVars, fileVars>>

\* join_all(..).await and the collect of its results.
JoinAll ==
    /\ phase = "joining"
    /\ JoinReady(jobs)
    /\ LET res == CollectResults(jobs) IN
       IF res = NoError
       THEN /\ phase' = "joined"
            /\ UNCHANGED result
       ELSE /\ phase' = "failed"
            /\ result' = res
    /\ UNCHANGED <<config, tutorials, nav_cache, navFormats, plan, jobs, fsOut,
                   firstFailed, nsVars, fileVars>>

\* tokio::fs::write(.. "functions.json", ..)
WriteFunctionsJson(ok) ==
    /\ phase = "joined"
    /\ IF ok
       THEN /\ fsOut' = MapInsert(fsOut, OutKey(<<>>, "functions.json"), "titles")
            /\ phase' = "functions_written"
            /\ UNCHANGED result
       ELSE /\ phase' = "failed"
            /\ result' = [job |-> 0, error |-> "Unable to save metadata"]
            /\ UNCHANGED fsOut
    /\ UNCHANGED <<config, tutorials, nav_cache, navFormats, plan, jobs, firstFailed,
                   nsVars, fileVars>>

\* Builder::build_nav_metadata: the values it can return, one for each order
\* the tutorial maps may iterate in.
BuildNavMetadata ==
    {NavMetadata(tnav, RootNamespaceNav(entries)) : tnav \in TutorialFolderNav(tutorials)}

\* tokio::fs::write(.. "nav.json", ..).await.unwrap(), then Ok(())
WriteNavJson(ok) ==
    /\ phase = "functions_written"
    /\ IF ok
       THEN /\ \E metadata \in BuildNavMetadata :
                  fsOut' = MapInsert(fsOut, OutKey(<<>>, "nav.json"), metadata)
            /\ phase' = "done"
            /\ result' = [job |-> 0, error |-> "none"]
       ELSE /\ phase' = "panicked"
            /\ UNCHANGED <<fsOut, result>>
    /\ UNCHANGED <<config, tutorials, nav_cache, navFormats, plan, jobs, firstFailed,
                   nsVars, fileVars>>

Next ==
    \/ \E ok \in BOOLEAN : Setup(ok)
    \/ BuildStart
    \/ CreateOutputFor
    \/ ExtractionDone
    \/ \E j \in DOMAIN jobs, outcome \in {"ok", "err", "panic"} : JobRender(j, outcome)
    \/ \E j \in DOMAIN jobs, ok \in BOOLEAN : JobCreateDir(j, ok)
    \/ \E j \in DOMAIN jobs, ok \in BOOLEAN : JobWriteMetadata(j, ok)
    \/ \E j \in DOMAIN jobs, ok \in BOOLEAN : JobWriteContent(j, ok)
    \/ \E j \in DOMAIN jobs, ok \in BOOLEAN : JobWriteIndex(j, ok)
    \/ JoinAll
    \/ \E ok \in BOOLEAN : WriteFunctionsJson(ok)
    \/ \E ok \in BOOLEAN : WriteNavJson(ok)

Spec == PipeInit /\ [][Next]_vars

(***************************************************************************)
(* SpecTutorials: TutorialFolder::from_config on a tutorials directory.    *)
(***************************************************************************)
MaxListing == 2

ReadmeLowerMd == FsFile(<<"readme", ".md">>, Markdown("Lower", "text"))
IndexCapMd == FsFile(<<"Index", ".md">>, Markdown("Capital", "text"))

ScanFiles == {GuideMd, IntroMd, ReadmeMd, ReadmeLowerMd, IndexMd, IndexCapMd, NotesTxt}

DeepDirs ==
    { FsDir(<<"deep">>, <<GuideMd>>), FsDir(<<"deep">>, <<IndexMd>>) }

\* The directories a tutorials directory may hold, some with a directory
\* of their own.
ScanSubDirs ==
    {FsDir(<<"adv">>, l) :
        l \in {<<>>, <<IntroMd>>, <<IndexMd>>, <<ReadmeMd>>, <<NotesTxt>>,
               <<IndexMd, IntroMd>>, <<ReadmeMd, IntroMd>>, <<IndexCapMd, GuideMd>>}
              \cup {<<d>> : d \in DeepDirs}
              \cup {<<IndexMd, d>> : d \in DeepDirs}}
    \cup {FsDir(<<"ref">>, l) : l \in {<<>>, <<GuideMd>>, <<ReadmeLowerMd>>}}

\* What read_dir can yield: up to MaxListing entries, no name twice.
ScanListings ==
    UNION {{l \in [1..n -> ScanFiles \cup ScanSubDirs] :
               \A i, j \in 1..n : l[i].name = l[j].name => i = j}
             : n \in 0..MaxListing}

ScanDirs == {NoTutorialsDir} \cup {FsDir(<<"docs">>, l) : l \in ScanListings}

TutorialsInit ==
    /\ phase = "scan"
    /\ config \in [navOk : {TRUE}, tutorials_dir : ScanDirs]
    /\ tutorials = FromConfig(NoTutorialsDir)
    /\ nav_cache = NoNav
    /\ navFormats = 0
    /\ plan = <<>>
    /\ jobs = <<>>
    /\ fsOut = EmptyMap
    /\ result = NoResult
    /\ firstFailed = 0
    /\ NsIdle
    /\ FilesIdle

\* tutorials: TutorialFolder::from_config(config.clone()) in Builder::new
ScanTutorials ==
    /\ phase = "scan"
    /\ phase' = "scanned"
    /\ tutorials' = FromConfig(config.tutorials_dir)
    /\ UNCHANGED <<config, nav_cache, navFormats, plan, jobs, fsOut, result, firstFailed,
                   nsVars, fileVars>>

TutorialsNext == ScanTutorials

SpecTutorials == TutorialsInit /\ [][TutorialsNext]_vars

(***************************************************************************)
(* SpecNs: Namespace::new_root, one child of the root per step.            *)
(***************************************************************************)
NsInit == NsIdle /\ FilesIdle /\ PipeIdle

\* load_entries of the root processes its next child.
LoadRootChild(child) ==
    /\ nsCount < MaxChildren
    /\ nsCount' = nsCount + 1
    /\ nsPrev' = entries
    /\ nsLast' = child
    /\ entries' = LoadChild(entries, child)
    /\ UNCHANGED <<fileVars, pipeVars>>

NsNext == \E child \in TopDecls : LoadRootChild(child)

SpecNs == NsInit /\ [][NsNext]_vars

(***************************************************************************)
(* Claims about the entity model builder, checked under SpecNs.            *)
(***************************************************************************)
\* The child is one load_entries looks at: named, outside system headers.
Considered(c) == ~c.sys /\ c.name # NoName

IsNamespaceDecl(c) == Considered(c) /\ c.kind = "Namespace"

IsRecordDecl(c) == Considered(c) /\ CppItemKindFrom(c.kind) \in {"Class", "Struct"}

\* A class or struct definition, or a function.
IsDefinedLeaf(c) ==
    \/ IsRecordDecl(c) /\ c.def
    \/ Considered(c) /\ CppItemKindFrom(c.kind) = "Function"

ChildNames(node) == {node.children[i].name : i \in DOMAIN node.children}

\* The last child re-declared a namespace that the parent already holds as
\* a namespace.
RedeclaresNamespace ==
    /\ IsNamespaceDecl(nsLast)
    /\ nsLast.name \in DOMAIN nsPrev
    /\ nsPrev[nsLast.name].kind = "Namespace"

\* C1: when namespace N, already present under its parent as a namespace
\* with children A.., is declared again with classes, structs or functions
\* B.. of other names, the parent still has exactly one entry N, it is a
\* Namespace, and its children are exactly the old ones and the new ones;
\* no sibling of N changes.
C1_RepeatedNamespaceMerged ==
    ( /\ RedeclaresNamespace
      /\ \A i \in DOMAIN nsLast.children :
            /\ IsDefinedLeaf(nsLast.children[i])
            /\ nsLast.children[i].name \notin DOMAIN nsPrev[nsLast.name].entries
            /\ \A j \in DOMAIN nsLast.children :
                  nsLast.children[j].name = nsLast.children[i].name => i = j )
    => LET n == nsLast.name
           old == nsPrev[n].entries
           new == entries[n].entries
       IN /\ DOMAIN entries = DOMAIN nsPrev
          /\ \A k \in DOMAIN nsPrev \ {n} : entries[k] = nsPrev[k]
          /\ entries[n].kind = "Namespace"
          /\ DOMAIN new = (DOMAIN old) \cup ChildNames(nsLast)
          /\ \A k \in DOMAIN old : new[k] = old[k]
          /\ \A i \in DOMAIN nsLast.children :
                LET c == nsLast.children[i] IN
                /\ new[c.name].kind = CppItemKindFrom(c.kind)
                /\ new[c.name].entity = c

\* C1's case: N { A } was loaded, N { class B } is loaded after it, and N
\* holds both.
C1_Witness ==
    /\ nsLast = Ns("N", <<Leaf("ClassDecl", "B", TRUE)>>)
    /\ "N" \in DOMAIN nsPrev
    /\ nsPrev["N"].kind = "Namespace"
    /\ DOMAIN nsPrev["N"].entries = {"A"}
    /\ entries["N"].kind = "Namespace"
    /\ DOMAIN entries["N"].entries = {"A", "B"}

\* C2: when namespace N is declared again and both the tree and the new
\* declaration hold a nested namespace M, the tree's N::M afterwards is a
\* namespace whose children are those it had together with those of the
\* new declaration of M: none of the earlier children is lost.
C2_NestedNamespaceMerged ==
    RedeclaresNamespace =>
        \A i \in DOMAIN nsLast.children :
            LET m == nsLast.children[i]
                n == nsLast.name
            IN ( /\ IsNamespaceDecl(m)
                 /\ m.name \in DOMAIN nsPrev[n].entries
                 /\ nsPrev[n].entries[m.name].kind = "Namespace"
                 /\ \A j \in DOMAIN m.children : IsDefinedLeaf(m.children[j]) )
               => /\ entries[n].entries[m.name].kind = "Namespace"
                  /\ DOMAIN entries[n].entries[m.name].entries =
                        (DOMAIN nsPrev[n].entries[m.name].entries) \cup ChildNames(m)

RECURSIVE OnlyDefinitions(_)
\* Every class and struct of the tree, at any depth, is a definition.
OnlyDefinitions(ents) ==
    \A k \in DOMAIN ents :
        CASE ents[k].kind = "Namespace" -> OnlyDefinitions(ents[k].entries)
          [] ents[k].kind \in {"Class", "Struct"} -> ents[k].entity.def
          [] OTHER -> TRUE

\* C3: a forward declaration of a class or struct leaves the entries as
\* they were (it adds no entry and replaces or removes none), a definition
\* becomes the one entry of its name, so with a forward declaration and a
\* definition of one name in either order the entry is the definition; no
\* class or struct entry of the tree is a forward declaration.
C3_OnlyDefinitionsRegistered ==
    /\ (IsRecordDecl(nsLast) /\ ~nsLast.def) => entries = nsPrev
    /\ (IsRecordDecl(nsLast) /\ nsLast.def) =>
          /\ DOMAIN entries = (DOMAIN nsPrev) \cup {nsLast.name}
          /\ entries[nsLast.name] = LeafItem(CppItemKindFrom(nsLast.kind), nsLast)
          /\ \A k \in DOMAIN nsPrev \ {nsLast.name} : entries[k] = nsPrev[k]
    /\ OnlyDefinitions(entries)

\* C3's case: class A was defined, then forward-declared, and the entry is
\* still the definition.
C3_Witness ==
    /\ nsLast = Leaf("ClassDecl", "A", FALSE)
    /\ "A" \in DOMAIN nsPrev
    /\ "A" \in DOMAIN entries
    /\ entries["A"] = LeafItem("Class", Leaf("ClassDecl", "A", TRUE))

\* The last child declared a namespace whose name the parent holds as a
\* class, struct or function.
NamespaceMeetsLeaf ==
    /\ IsNamespaceDecl(nsLast)
    /\ nsLast.name \in DOMAIN nsPrev
    /\ nsPrev[nsLast.name].kind # "Namespace"

\* C15: a namespace declaration X processed while the parent holds a class,
\* struct or function X is dropped with all its contents: the parent's
\* entries are exactly what they were, X and every sibling included.
C15_NamespaceDiscarded ==
    NamespaceMeetsLeaf => entries = nsPrev

\* C15's case: the parent holds class N and function A; namespace N with a
\* class in it is processed and nothing changes.
C15_Witness ==
    /\ nsLast = Ns("N", <<Leaf("ClassDecl", "B", TRUE)>>)
    /\ DOMAIN nsPrev = {"N", "A"}
    /\ nsPrev["N"].kind = "Class"
    /\ entries = nsPrev

\* C16: a class or struct definition or a function X becomes the entry X
\* also when X was a namespace, whose children are gone with it, and
\* leaves the siblings alone; an entry X that is no namespace is never
\* turned into one, and stays as it is registered until the next class or
\* struct definition or function X.  So in whatever order the siblings
\* come, with a registered non-namespace X among them the final entry X is
\* the last of these and not a namespace.
C16_NonNamespaceWins ==
    /\ IsDefinedLeaf(nsLast) =>
          /\ DOMAIN entries = (DOMAIN nsPrev) \cup {nsLast.name}
          /\ entries[nsLast.name] = LeafItem(CppItemKindFrom(nsLast.kind), nsLast)
          /\ \A k \in DOMAIN nsPrev \ {nsLast.name} : entries[k] = nsPrev[k]
    /\ ~IsDefinedLeaf(nsLast) =>
          \A k \in DOMAIN nsPrev :
              nsPrev[k].kind # "Namespace" => (k \in DOMAIN entries /\ entries[k] = nsPrev[k])

\* C16's case: namespace N holds a class; class N is defined after it and
\* takes the entry.
C16_Witness ==
    /\ nsLast = Leaf("ClassDecl", "N", TRUE)
    /\ "N" \in DOMAIN nsPrev
    /\ nsPrev["N"].kind = "Namespace"
    /\ DOMAIN nsPrev["N"].entries # {}
    /\ entries["N"] = LeafItem("Class", nsLast)

(***************************************************************************)
(* Claims about the file tree scanner, checked under SpecFiles.            *)
(***************************************************************************)
\* C4: any two distinct page-producing nodes have distinct URLs; for the
\* browsed files: two distinct File nodes, in one root or in two, never
\* have the same URL.
C4_FileUrlsDistinct ==
    \A a \in AllFileNodes, b \in AllFileNodes :
        a # b => FileUrl(a[3]) # FileUrl(b[3])

RECURSIVE HasNode(_, _, _)
\* The tree of `dir` has a node at the relative path `path`: a Dir when
\* isDir, else a File.
HasNode(dir, path, isDir) ==
    IF path = <<>> THEN isDir
    ELSE IF Len(path) = 1
    THEN IF isDir THEN path[1] \in DOMAIN dir.dirs ELSE path[1] \in DOMAIN dir.files
    ELSE /\ Head(path) \in DOMAIN dir.dirs
         /\ HasNode(dir.dirs[Head(path)], Tail(path), isDir)

RECURSIVE NodeAt(_, _)
\* The File at the relative path `path` of the tree of `dir`.
NodeAt(dir, path) ==
    IF Len(path) = 1 THEN dir.files[path[1]]
    ELSE NodeAt(dir.dirs[Head(path)], Tail(path))

RECURSIVE TreeKept(_, _)
\* Every directory and file of the tree `old` is in the tree `new`.
TreeKept(old, new) ==
    /\ old.name = new.name /\ old.path = new.path
    /\ \A k \in DOMAIN old.files : k \in DOMAIN new.files /\ new.files[k] = old.files[k]
    /\ \A d \in DOMAIN old.dirs : d \in DOMAIN new.dirs /\ TreeKept(old.dirs[d], new.dirs[d])

\* The project's directories and files at or below `path`.
Descendants(path) == {f \in FsPaths : StripPrefix(f, path) # NoPath}

\* C13: once an included path under a root has been handled, the root's
\* tree holds, for a directory, the directory with every directory and
\* file below it, and for a file, the directories leading to it and one
\* File node at the leaf; and handling a path keeps all that the trees
\* held before.
C13_IncludeInsertsTree ==
    /\ [](incCount > 0 =>
            \A i \in DOMAIN roots :
                LET cut_path == StripPrefix(incLast, roots[i].def.path) IN
                cut_path # NoPath =>
                    IF IsDir(incLast)
                    THEN \A f \in Descendants(incLast) :
                            HasNode(roots[i].dir, StripPrefix(f, roots[i].def.path), IsDir(f))
                    ELSE /\ HasNode(roots[i].dir, cut_path, FALSE)
                         /\ NodeAt(roots[i].dir, cut_path) = FileNew(cut_path))
    /\ [][\A i \in DOMAIN roots : TreeKept(roots[i].dir, roots'[i].dir)]_vars

(***************************************************************************)
(* Claims about the page pipeline, checked under Spec.                     *)
(***************************************************************************)
\* Builder::new has returned a Builder.
Constructed == phase \notin {"new", "setup_failed"}

\* Builder::build has decided what it returns.
Returned == phase \in {"failed", "done", "panicked"}

JobFailed(job) == job.pc \in {"failed", "panicked"}

FailedJobs == {j \in DOMAIN jobs : JobFailed(jobs[j])}

\* C5: the nav template is formatted once per build, by the prebuild of
\* Builder::setup: never more than once, exactly once for a constructed
\* Builder whatever the number of pages, and every page's job holds the
\* fragment stored in nav_cache.
C5_NavComputedOnce ==
    /\ navFormats <= 1
    /\ Constructed => (navFormats = 1 /\ nav_cache = NavFragment(config))
    /\ \A j \in DOMAIN jobs : jobs[j].nav = nav_cache

\* C5's case: three pages have asked for the nav, one format has happened.
C5_Witness ==
    /\ Len(jobs) = 3
    /\ navFormats = 1
    /\ \A j \in DOMAIN jobs : jobs[j].nav = NavFragment(config)

\* C6: no job is spawned before the nav is prebuilt and the content of
\* every entry of the forest has been extracted.
C6_BarrierBeforeJobs ==
    jobs # <<>> => (nav_cache # NoNav /\ Len(jobs) = Len(plan))

\* C7: once build is past join_all every submitted job has ended; with a
\* failed job build returns the error of the failed job that was submitted
\* first, whichever failed first in time; with none it returns no job's
\* error.
C7_FirstFailureInSubmissionOrder ==
    phase \in {"joined", "functions_written", "failed", "done", "panicked"} =>
        /\ Len(jobs) = Len(plan)
        /\ \A j \in DOMAIN jobs : JobFinished(jobs[j])
        /\ FailedJobs # {} =>
              LET first == CHOOSE j \in FailedJobs : \A k \in FailedJobs : j <= k IN
              /\ phase = "failed"
              /\ result.job = first
              /\ result.error = WrapperError(jobs[first])
        /\ FailedJobs = {} => (result = NoResult \/ result.job = 0)

\* C7's case: job 2 was the first to fail, job 1 failed after it, and
\* build returned the error of job 1.
C7_Witness ==
    /\ phase = "failed"
    /\ firstFailed = 2
    /\ FailedJobs = {1, 2}
    /\ result.job = 1

JobArtifacts(job) ==
    {OutKey(job.page.url, f) : f \in {".", "metadata.json", "content.html", "index.html"}}

\* C8: when build returns the failure of a job, every job that did not fail
\* has ended with all its artifacts written under its target URL; and no
\* step of the pipeline ever removes an artifact.
C8_SiblingsUnaffected ==
    /\ [](Returned /\ FailedJobs # {} =>
            \A j \in DOMAIN jobs \ FailedJobs :
                /\ jobs[j].pc = "done"
                /\ JobArtifacts(jobs[j]) \subseteq DOMAIN fsOut)
    /\ [][\A k \in DOMAIN fsOut : k \in DOMAIN fsOut']_vars

\* C8's case: job 1 could not create its directory, job 2 is done and
\* its files are there when build has returned the failure.
C8_Witness ==
    /\ phase = "failed"
    /\ Len(jobs) >= 2
    /\ jobs[1].pc = "failed" /\ jobs[1].err = "Unable to create directory"
    /\ firstFailed = 1
    /\ jobs[2].pc = "done"
    /\ JobArtifacts(jobs[2]) \subseteq DOMAIN fsOut
    /\ result.job = 1

RECURSIVE AllTutorials(_)
\* The Tutorial nodes of a folder and of the folders below it.
AllTutorials(folder) ==
    {folder.tutorials[k] : k \in DOMAIN folder.tutorials}
    \cup UNION {AllTutorials(folder.folders[k]) : k \in DOMAIN folder.folders}

\* C9: the page title of a tutorial's page is made of the tutorial's title
\* (its first heading, else its file name): "<title> - <project> Docs".
C9_TutorialPageTitle ==
    \A t \in AllTutorials(tutorials) :
        \A j \in DOMAIN jobs :
            (jobs[j].page.entry = TutorialEntry("Tutorial", t.path) /\ jobs[j].title # <<>>)
            => jobs[j].title = t.title \o <<" - ", ProjectName, " Docs">>

RECURSIVE EntityEntries(_, _)
\* The entities of the tree, namespaces included.
EntityEntries(ents, qname) ==
    UNION {{EntityEntry(ents[k].kind, qname \o <<k>>)}
           \cup (IF ents[k].kind = "Namespace"
                 THEN EntityEntries(ents[k].entries, qname \o <<k>>)
                 ELSE {})
             : k \in DOMAIN ents}

RECURSIVE TutorialEntries(_)
\* The tutorial folders and tutorials of the tree.
TutorialEntries(folder) ==
    {TutorialEntry("TutorialFolder", folder.path)}
    \cup {TutorialEntry("Tutorial", t.path) : t \in AllTutorials(folder)}
    \cup UNION {TutorialEntries(folder.folders[k]) : k \in DOMAIN folder.folders}

\* C10: Phase 1 yields a job for every Entry of the entity tree and of the
\* tutorial tree, the containers (namespaces, tutorial folders) as well as
\* the leaves.
C10_JobForEveryEntry ==
    phase \in {"joining", "joined", "functions_written", "failed", "done", "panicked"} =>
        \A e \in EntityEntries(entries, <<>>) \cup TutorialEntries(tutorials) :
            \E j \in DOMAIN jobs : jobs[j].page.entry = e

NavJsonKey == OutKey(<<>>, "nav.json")

\* C11: nav.json, once written, is an object with exactly the keys
\* "tutorials" and "entities", each holding the JSON of its tree's nav; an
\* empty tutorial tree or entity tree gives the empty array under its key,
\* not a missing key; and by then every job of Phase 2 has been awaited.
C11_NavJsonKeys ==
    NavJsonKey \in DOMAIN fsOut =>
        /\ DOMAIN fsOut[NavJsonKey] = {"tutorials", "entities"}
        /\ fsOut[NavJsonKey].entities = NavToJson(RootNamespaceNav(entries))
        /\ fsOut[NavJsonKey].tutorials \in {NavToJson(n) : n \in TutorialFolderNav(tutorials)}
        /\ DOMAIN entries = {} => fsOut[NavJsonKey].entities = <<>>
        /\ (DOMAIN tutorials.folders = {} /\ DOMAIN tutorials.tutorials = {})
              => fsOut[NavJsonKey].tutorials = <<>>
        /\ Len(jobs) = Len(plan)
        /\ \A j \in DOMAIN jobs : JobFinished(jobs[j])

\* C11's case: nav.json is written for a project with tutorials and no
\* entity.
C11_Witness ==
    /\ NavJsonKey \in DOMAIN fsOut
    /\ DOMAIN entries = {}
    /\ DOMAIN tutorials.tutorials # {}
    /\ fsOut[NavJsonKey].entities = <<>>
    /\ fsOut[NavJsonKey].tutorials # <<>>
    /\ jobs # <<>>

(***************************************************************************)
(* Claims about the tutorial scanner, checked under SpecTutorials.         *)
(***************************************************************************)
SpecialNames == {<<"readme", ".md">>, <<"index", ".md">>}

\* The files of a listing named readme.md or index.md in any letter case.
SpecialFiles(listing) ==
    {i \in DOMAIN listing :
        listing[i].ty = "file" /\ ToLowercase(listing[i].name) \in SpecialNames}

RECURSIVE SpecialFilesAreIndex(_, _)
\* In the folder scanned from `dir`, and in the folders below it: no
\* special file is a Tutorial, and the folder's index is the content of
\* its special file (where the directory holds just one).
SpecialFilesAreIndex(folder, dir) ==
    /\ \A i \in SpecialFiles(dir.listing) :
          /\ \A k \in DOMAIN folder.tutorials :
                RawFileName(folder.tutorials[k].path) # dir.listing[i].name
          /\ Cardinality(SpecialFiles(dir.listing)) = 1
                => folder.index = dir.listing[i].md
    /\ \A i \in DOMAIN dir.listing :
          dir.listing[i].ty = "dir" =>
              \A k \in DOMAIN folder.folders :
                  RawFileName(folder.folders[k].path) = dir.listing[i].name
                  => SpecialFilesAreIndex(folder.folders[k], dir.listing[i])

\* The scan is through and has found tutorials.
ScannedTree ==
    /\ phase = "scanned"
    /\ config.tutorials_dir # NoTutorialsDir
    /\ DOMAIN tutorials.folders \cup DOMAIN tutorials.tutorials # {}

\* C12: a file named readme.md or index.md, in any letter case, is never a
\* standalone Tutorial, and its content is the index of the TutorialFolder
\* of its directory.
C12_SpecialFilesAreIndex ==
    ScannedTree => SpecialFilesAreIndex(tutorials, config.tutorials_dir)

\* A qualifying tutorial: a .md file that is not readme.md or index.md.
Qualifying(file) ==
    /\ file.ty = "file"
    /\ file.name[Len(file.name)] = ".md"
    /\ ToLowercase(file.name) \notin SpecialNames

RECURSIVE DirQualifies(_)
\* The directory or a directory below it holds a qualifying tutorial.
DirQualifies(dir) ==
    \E i \in DOMAIN dir.listing :
        \/ Qualifying(dir.listing[i])
        \/ dir.listing[i].ty = "dir" /\ DirQualifies(dir.listing[i])

RECURSIVE FolderHasTutorial(_)
\* The folder or a folder below it has a Tutorial.
FolderHasTutorial(folder) ==
    \/ DOMAIN folder.tutorials # {}
    \/ \E k \in DOMAIN folder.folders : FolderHasTutorial(folder.folders[k])

\* The folders of `folder` that were scanned from its directory `sub`.
FoldersOf(folder, sub) ==
    {k \in DOMAIN folder.folders : folder.folders[k].path = folder.path \o <<sub.name>>}

RECURSIVE PrunedTree(_, _)
\* The folder scanned from `dir` has a folder for exactly the directories
\* that qualify, each with a Tutorial in it or below it, and so on below.
PrunedTree(folder, dir) ==
    /\ \A i \in DOMAIN dir.listing :
          LET sub == dir.listing[i] IN
          sub.ty = "dir" =>
              IF DirQualifies(sub)
              THEN /\ FoldersOf(folder, sub) # {}
                   /\ \A k \in FoldersOf(folder, sub) : PrunedTree(folder.folders[k], sub)
              ELSE FoldersOf(folder, sub) = {}
    /\ \A k \in DOMAIN folder.folders :
          /\ FolderHasTutorial(folder.folders[k])
          /\ \E i \in DOMAIN dir.listing :
                dir.listing[i].ty = "dir" /\ k \in FoldersOf(folder, dir.listing[i])

\* C14: every TutorialFolder below the root has a qualifying tutorial in it
\* or below it; a directory with none, also one that holds just an
\* index.md or readme.md, has no folder in the tree; every directory that
\* does qualify has its folder, whatever was pruned beside it.
C14_EmptyFoldersPruned ==
    phase = "scanned" =>
        IF config.tutorials_dir = NoTutorialsDir
        THEN DOMAIN tutorials.folders = {} /\ DOMAIN tutorials.tutorials = {}
        ELSE PrunedTree(tutorials, config.tutorials_dir)

\* C14's case: of two directories side by side, the one holding only an
\* index.md is pruned and the one holding a tutorial is kept.
C14_Witness ==
    /\ phase = "scanned"
    /\ config.tutorials_dir # NoTutorialsDir
    /\ \E i, j \in DOMAIN config.tutorials_dir.listing :
          LET a == config.tutorials_dir.listing[i]
              b == config.tutorials_dir.listing[j]
          IN /\ a.ty = "dir" /\ a.listing = <<IndexMd>>
             /\ b.ty = "dir" /\ DirQualifies(b)
             /\ FoldersOf(tutorials, a) = {}
             /\ FoldersOf(tutorials, b) # {}

(***************************************************************************)
(* Claims about the artifacts and the aggregate documents, checked under   *)
(* Spec.                                                                   *)
(***************************************************************************)
\* The output directory holds `file` under the target URL `url`.
Written(url, file) == OutKey(url, file) \in DOMAIN fsOut

\* C17: a job writes its directory, metadata.json, content.html and
\* index.html in this order and stops at the first step that fails: under
\* every target URL index.html comes with content.html, content.html with
\* metadata.json and metadata.json with the directory; a job that returned
\* its URL has written all four; a job that failed at a step has left what
\* the steps before wrote.
C17_ArtifactOrder ==
    /\ \A k \in DOMAIN fsOut :
          /\ k.file = "index.html" => Written(k.dir, "content.html")
          /\ k.file = "content.html" => Written(k.dir, "metadata.json")
          /\ k.file = "metadata.json" => Written(k.dir, ".")
    /\ \A j \in DOMAIN jobs :
          LET url == jobs[j].page.url IN
          /\ jobs[j].pc = "done" => JobArtifacts(jobs[j]) \subseteq DOMAIN fsOut
          /\ jobs[j].pc = "content" => Written(url, "content.html")
          /\ jobs[j].pc = "metadata" => Written(url, "metadata.json")
          /\ jobs[j].pc = "dir" => Written(url, ".")
          /\ (jobs[j].pc = "failed" /\ jobs[j].err = "Unable to save")
                => Written(url, "metadata.json")
          /\ (jobs[j].pc = "failed" /\ jobs[j].err = "Unable to save metadata")
                => Written(url, ".")

\* C17's case: the only job failed at index.html; its content.html and
\* metadata.json are there, its index.html is not.
C17_Witness ==
    /\ Len(jobs) = 1
    /\ Len(plan) = 1
    /\ jobs[1].pc = "failed"
    /\ jobs[1].err = "Unable to save"
    /\ Written(jobs[1].page.url, "content.html")
    /\ Written(jobs[1].page.url, "metadata.json")
    /\ ~Written(jobs[1].page.url, "index.html")

\* C18: with a failed job build returns the error and writes neither
\* functions.json nor nav.json; nav.json is written only after
\* functions.json, and functions.json only after every job has been
\* submitted and has ended; build returns Ok only with both written.
C18_AggregatesGated ==
    /\ FailedJobs # {} =>
          /\ ~Written(<<>>, "functions.json")
          /\ ~Written(<<>>, "nav.json")
          /\ Returned => (phase = "failed" /\ result.job \in FailedJobs)
    /\ Written(<<>>, "nav.json") => Written(<<>>, "functions.json")
    /\ Written(<<>>, "functions.json") =>
          /\ Len(jobs) = Len(plan)
          /\ \A j \in DOMAIN jobs : jobs[j].pc = "done"
    /\ phase = "done" => (Written(<<>>, "functions.json") /\ Written(<<>>, "nav.json"))

\* C18's case: of two jobs the second failed, the first is done, build has
\* returned the error and the output directory has no aggregate document.
C18_Witness ==
    /\ phase = "failed"
    /\ Len(jobs) = 2
    /\ jobs[1].pc = "done"
    /\ jobs[2].pc = "failed"
    /\ result.job = 2
    /\ ~Written(<<>>, "functions.json")
    /\ ~Written(<<>>, "nav.json")

====
